---- MODULE Spec2Model ----
(***************************************************************************)
(* Model of src/src/xhr.js: the bounded-concurrency pool XHRPool and the   *)
(* single-request wrapper xhrRequest over an XMLHttpRequest transport.     *)
(*                                                                         *)
(* Spec      the pool: enqueue, the task settling (external signal), and   *)
(*           the then/catch continuations of _next.                        *)
(* SpecTimed the same pool where every task is a timer of a given          *)
(*           duration and a clock advances.                                *)
(* SpecReq   one request: setup, transport notifications, abort.           *)
(* SpecLive  the pool whose tasks all settle (weak fairness), for the      *)
(*           liveness of the queue.                                        *)
(* SpecHeaders, SpecPayload  parseHeaders and the payload of xhrRequest,   *)
(*           each applied to inputs drawn from bounded sets.               *)
(***************************************************************************)
EXTENDS Integers, Sequences, FiniteSets, TLC

\* ---------------------------------------------------------------- bounds
MaxJobs == 4
MaxLimit == 2
MaxNest == 1
MaxTime == 6

None == "none"
\* The values tasks settle with, one per job so that a value forwarded to the
\* wrong submission shows; the pool never inspects them.
Results(j) == {<<"result", j>>}
Reasons(j) == {<<"reason", j>>}
Exceptions == {"x1"}

Jobs == 1..MaxJobs

Min(a, b) == IF a <= b THEN a ELSE b

\* ------------------------------------------------------------------ state
VARIABLES
  concurrency,  \* this.concurrency
  active,       \* this.active
  queue,        \* this.queue: jobs [id, kids, exc], head first
  nextId,       \* number of enqueue calls so far + 1 (ids follow submission order)
  promise,      \* promise[j]: the promise returned by job j's factory
  running,      \* jobs whose promise has the then/catch chain attached and not yet run
  token,        \* token[j]: the promise returned by enqueue for job j
  started,      \* history: job ids in the order their factories were invoked
  cause,        \* history: cause[j] = the call in which j's factory was invoked
  enqActive,    \* history: this.active when j was pushed
  enqHead,      \* history: the head of the queue when j was pushed (0: queue empty)
  preActive,    \* history: this.active observed by the dispatch attempt that shifted j
  postActive,   \* history: this.active right after the catch block's decrement for j
  thrown,       \* history: the exception j's factory threw
  parent,       \* history: the job whose factory made j's enqueue call (0: the application)
  headAtThrow,  \* history: the head of the queue when j's factory threw (0: queue empty)
  now,          \* SpecTimed: the clock
  dur,          \* SpecTimed: dur[j], time from j's factory call to its task settling
  enqT,         \* SpecTimed: time of j's enqueue
  startT,       \* SpecTimed: time of j's factory call
  endT,         \* SpecTimed: time j's token settled
  xhr,          \* SpecReq: the XMLHttpRequest object of the request
  call,         \* SpecReq: the closure of one xhrRequest call (opts, lastIndex)
  tok,          \* SpecReq: the promise xhrRequest returns
  hist,         \* SpecReq: history of the request (what was delivered, chunks passed)
  input,        \* SpecHeaders, SpecPayload: the arguments of the code under study
  output        \* SpecHeaders, SpecPayload: what that code computed from them

poolVars == <<concurrency, active, queue, nextId, promise, running, token, started,
              cause, enqActive, enqHead, preActive, postActive, thrown, parent,
              headAtThrow>>
timeVars == <<now, dur, enqT, startT, endT>>
reqVars == <<xhr, call, tok, hist>>
fnVars == <<input, output>>

\* ------------------------------------------------------- promise semantics
\* A promise settles once: resolve/reject on a settled promise are ignored.
Pending == [state |-> "pending", value |-> None]

rejectOverwrites(p, e) == [state |-> "rejected", value |-> e]

resolve(p, v) == IF p.state = "pending" THEN [state |-> "resolved", value |-> v] ELSE p

reject(p, e) == IF p.state = "pending" THEN [state |-> "rejected", value |-> e] ELSE p

\* ------------------------------------------------------------------ text
\* Strings are sequences of characters.  "CR" is the carriage return, "LF" the
\* line feed, "A" an upper-case letter whose lower case is "a".
IsSpace(c) == c \in {" ", "CR", "LF"}

\* The regular expression literal of lines 11-12 holds a raw line feed between
\* its slashes and is no regular expression literal of the language: an engine
\* rejects the file as stored (SyntaxError).  What the literal separates is
\* therefore settled by the build, not by the source, and the model takes
\* every outcome:
\*   "LF"    the bytes between the slashes taken as the pattern: a class of
\*           the line feed alone, the carriage return not in it;
\*   "CRLF"  the literal written with escapes, /[\r\n]+/: a class of the
\*           carriage return and the line feed;
\*   "SyntaxError"  the file is not compiled and parseHeaders gives nothing.
Readings == {"LF", "CRLF"}
Builds == Readings \cup {"SyntaxError"}

\* The character class of the expression under the reading re.
IsNewline(c, re) == c = "LF" \/ (re = "CRLF" /\ c = "CR")

\* String.prototype.toLowerCase
toLowerCase(str) == [i \in 1..Len(str) |-> IF str[i] = "A" THEN "a" ELSE str[i]]

\* String.prototype.trim
RECURSIVE trimStart(_)
trimStart(str) == IF str # <<>> /\ IsSpace(Head(str)) THEN trimStart(Tail(str)) ELSE str

RECURSIVE trimEnd(_)
trimEnd(str) ==
  IF str # <<>> /\ IsSpace(str[Len(str)]) THEN trimEnd(SubSeq(str, 1, Len(str) - 1)) ELSE str

trim(str) == trimEnd(trimStart(str))

\* str.split(...) by the expression of lines 11-12 under the reading re (one or
\* more characters of its class): cur is the piece being read, acc the pieces
\* read.
RECURSIVE splitLines(_, _, _, _)
splitLines(str, cur, acc, re) ==
  IF str = <<>> THEN Append(acc, cur)
  ELSE IF IsNewline(Head(str), re)
  THEN IF Len(str) >= 2 /\ IsNewline(str[2], re)
       THEN splitLines(Tail(str), cur, acc, re)
       ELSE splitLines(Tail(str), <<>>, Append(acc, cur), re)
  ELSE splitLines(Tail(str), Append(cur, Head(str)), acc, re)

\* line.split(': ')
RECURSIVE splitColon(_, _, _)
splitColon(str, cur, acc) ==
  IF str = <<>> THEN Append(acc, cur)
  ELSE IF Len(str) >= 2 /\ str[1] = ":" /\ str[2] = " "
  THEN splitColon(SubSeq(str, 3, Len(str)), <<>>, Append(acc, cur))
  ELSE splitColon(Tail(str), Append(cur, Head(str)), acc)

\* parts.join(': ')
RECURSIVE join(_)
join(parts) ==
  IF parts = <<>> THEN <<>>
  ELSE IF Len(parts) = 1 THEN parts[1]
  ELSE parts[1] \o <<":", " ">> \o join(Tail(parts))

\* headers[key] = value on a plain object: the last write to a key wins.
Put(obj, key, value) ==
  [k \in (DOMAIN obj) \cup {key} |-> IF k = key THEN value ELSE obj[k]]

\* The forEach body of parseHeaders over lines[i..].
RECURSIVE headerLines(_, _, _)
headerLines(lines, i, headers) ==
  IF i > Len(lines) THEN headers
  ELSE LET parts == splitColon(lines[i], <<>>, <<>>)
           key == Head(parts)
           value == join(Tail(parts))
       IN  headerLines(lines, i + 1, Put(headers, toLowerCase(key), value))

\* parseHeaders(headerStr) in a build that reads the expression as re; the
\* empty string stands for every falsy block.
parseHeaders(headerStr, re) ==
  IF headerStr = <<>> THEN <<>>
  ELSE headerLines(splitLines(trim(headerStr), <<>>, <<>>, re), 1, <<>>)

\* JSON.parse on the texts over "[", "]" and "1": numbers written with the digit
\* 1 and arrays of at most one element.  ok = FALSE stands for a SyntaxError.
RECURSIVE Repunit(_)
Repunit(n) == IF n = 0 THEN 0 ELSE 10 * Repunit(n - 1) + 1

JsonNull == [type |-> "null"]

RECURSIVE JSONparse(_)
JSONparse(text) ==
  IF text # <<>> /\ \A i \in 1..Len(text) : text[i] = "1"
  THEN [ok |-> TRUE, value |-> [type |-> "number", n |-> Repunit(Len(text))]]
  ELSE IF Len(text) >= 2 /\ text[1] = "[" /\ text[Len(text)] = "]"
  THEN IF Len(text) = 2
       THEN [ok |-> TRUE, value |-> [type |-> "array", items |-> <<>>]]
       ELSE LET inner == JSONparse(SubSeq(text, 2, Len(text) - 1))
            IN  IF inner.ok
                THEN [ok |-> TRUE, value |-> [type |-> "array", items |-> <<inner.value>>]]
                ELSE [ok |-> FALSE, value |-> JsonNull]
  ELSE [ok |-> FALSE, value |-> JsonNull]

\* ------------------------------------------------------------ xhrRequest
\* Bounds of the request model.
MaxText == 3
MaxLoads == 2

Statuses == {199, 200, 299, 300, 404}
ResponseTypes == {"json", "text", "arraybuffer"}
TextChars == {"[", "]", "1"}
HeaderBlocks == {<<>>,
                 <<"A", ":", " ", "1", "CR", "LF">>,
                 <<"A", ":", " ", "1", "CR", "LF", "a", ":", " ", "[", ":", " ", "]">>}
\* The statements of the executor that can throw, in order; the handlers are
\* registered after "header" and before "stringify".
SetupSteps == <<"open", "config", "header", "stringify", "send">>

NoValue == [kind |-> "none"]
PendingToken == [state |-> "pending", value |-> NoValue]
ErrorOf(message) == [kind |-> "Error", message |-> message]
SetupError(step) == [kind |-> "Exception", thrownBy |-> step]
StatusText(status) == <<"statusText", status>>
\* JavaScript values: null, a string, the object a non-text response type gives.
Null == [type |-> "null"]
Str(text) == [type |-> "string", of |-> text]
Native(rt, text) == [type |-> rt, of |-> text]

\* xhr.responseText throws InvalidStateError unless xhr.responseType is "" or
\* "text"; a transport that is not a browser's may let it be read (readable).
TextThrows(x) == x.responseType \notin {"", "text"} /\ ~x.readable

\* JavaScript truthiness of xhr.response: null and the empty string are falsy.
Truthy(v) == v.type # "null" /\ ~(v.type = "string" /\ v.of = <<>>)

\* The request (transport, closure, token, history) as one record.
Req == [xhr |-> xhr, call |-> call, tok |-> tok, hist |-> hist]

\* An uncaught exception leaves the handler: what it did so far stays.
Uncaught(r) == [r EXCEPT !.hist.uncaught = @ + 1]

\* resolve/reject of the executor, counting the calls made.
Resolve(r, v) == [r EXCEPT !.tok = resolve(@, v), !.hist.attempts = @ + 1]
Reject(r, e) == [r EXCEPT !.tok = reject(@, e), !.hist.attempts = @ + 1]

\* What the registered onChunk does on its n-th call: "throws" throws on every
\* call, "throwsFirst" on the first call only, "returns" never.
ChunkCallbacks == {"none", "returns", "throws", "throwsFirst"}
ChunkThrows(r) ==
  \/ r.call.onChunk = "throws"
  \/ r.call.onChunk = "throwsFirst" /\ r.hist.chunks = <<>>

\* One call of onChunk as the callback sees it: the increment it got, the offset
\* the increment starts at, the notification and the token at that moment.
ChunkCall(r, chunk) ==
  [from |-> r.call.lastIndex, text |-> chunk, threw |-> ChunkThrows(r),
   load |-> r.hist.loads, readyState |-> r.xhr.readyState, tokState |-> r.tok.state]

\* lastIndex advanced only after onChunk returned.
OnLoadingAdvanceAfter(r) ==
  IF r.xhr.readyState = 3 /\ r.call.onChunk # "none"
  THEN IF TextThrows(r.xhr)
       THEN [done |-> TRUE, r |-> Uncaught(r)]
       ELSE LET chunk == SubSeq(r.xhr.responseText, r.call.lastIndex + 1,
                                Len(r.xhr.responseText))
            IN  [done |-> FALSE,
                 r |-> [r EXCEPT !.call.lastIndex = IF ChunkThrows(r) THEN @
                                                    ELSE Len(r.xhr.responseText),
                                 !.hist.chunks = Append(@, ChunkCall(r, chunk))]]
  ELSE [done |-> FALSE, r |-> r]

\* The readyState 3 part of onreadystatechange: the increment since lastIndex
\* goes to onChunk, whose exceptions are swallowed; lastIndex has advanced
\* before the call.  Reading xhr.responseText is outside the try.
OnLoading(r) ==
  IF r.xhr.readyState = 3 /\ r.call.onChunk # "none"
  THEN IF TextThrows(r.xhr)
       THEN [done |-> TRUE, r |-> Uncaught(r)]
       ELSE LET chunk == SubSeq(r.xhr.responseText, r.call.lastIndex + 1,
                                Len(r.xhr.responseText))
            IN  [done |-> FALSE,
                 r |-> [r EXCEPT !.call.lastIndex = Len(r.xhr.responseText),
                                 !.hist.chunks = Append(@, ChunkCall(r, chunk))]]
  ELSE [done |-> FALSE, r |-> r]

\* A decoding whose JSON.parse failure is not caught.
DecodeNoFallback(r) ==
  LET x == r.xhr IN
  IF x.responseType = "json" THEN [threw |-> FALSE, body |-> x.response]
  ELSE IF r.call.responseType = "json"
  THEN IF TextThrows(x) THEN [threw |-> TRUE, body |-> Null]
       ELSE IF x.responseText = <<>> THEN [threw |-> FALSE, body |-> Null]
       ELSE LET parsed == JSONparse(x.responseText)
            IN  IF parsed.ok THEN [threw |-> FALSE, body |-> parsed.value]
                ELSE [threw |-> TRUE, body |-> Null]
  ELSE IF Truthy(x.response) THEN [threw |-> FALSE, body |-> x.response]
  ELSE IF TextThrows(x) THEN [threw |-> TRUE, body |-> Null]
  ELSE [threw |-> FALSE, body |-> Str(x.responseText)]

\* The try/catch that decodes the body of a 2xx response.  threw: the catch
\* block itself threw (reading responseText).
Decode(r) ==
  LET x == r.xhr IN
  IF x.responseType = "json" THEN [threw |-> FALSE, body |-> x.response]
  ELSE IF r.call.responseType = "json"
  THEN IF TextThrows(x) THEN [threw |-> TRUE, body |-> Null]
       ELSE IF x.responseText = <<>> THEN [threw |-> FALSE, body |-> Null]
       ELSE LET parsed == JSONparse(x.responseText)
            IN  IF parsed.ok THEN [threw |-> FALSE, body |-> parsed.value]
                ELSE [threw |-> FALSE, body |-> Str(x.responseText)]
  ELSE IF Truthy(x.response) THEN [threw |-> FALSE, body |-> x.response]
  ELSE IF TextThrows(x) THEN [threw |-> TRUE, body |-> Null]
  ELSE [threw |-> FALSE, body |-> Str(x.responseText)]

\* The readyState 4 part of onreadystatechange.
OnDone(r) ==
  LET x == r.xhr
      parsedHeaders == parseHeaders(x.rawHeaders, r.call.re)
  IN  IF x.readyState # 4 THEN r
      ELSE IF x.status >= 200 /\ x.status < 300
      THEN LET d == Decode(r)
           IN  IF d.threw THEN Uncaught(r)
               ELSE Resolve(r, [kind |-> "ResponseEnvelope", status |-> x.status,
                                headers |-> parsedHeaders, body |-> d.body, xhr |-> "xhr"])
      ELSE IF TextThrows(x) THEN Uncaught(r)
      ELSE Reject(r, [kind |-> "FailureEnvelope", status |-> x.status,
                      statusText |-> x.statusText, body |-> Str(x.responseText),
                      headers |-> parsedHeaders])

\* xhr.onreadystatechange
onreadystatechange(r) ==
  LET l == OnLoading(r) IN IF l.done THEN l.r ELSE OnDone(l.r)

\* An abort handler that was never registered.
onabortMissing(r) == r

onerror(r) == Reject(r, ErrorOf("Network error"))
ontimeout(r) == Reject(r, ErrorOf("Timeout"))
onabort(r) == Reject(r, ErrorOf("Aborted"))

OnEvent(kind, r) ==
  IF kind = "error" THEN onerror(r)
  ELSE IF kind = "timeout" THEN ontimeout(r)
  ELSE onabort(r)

InitRequest ==
  /\ xhr = [readyState |-> 0, responseType |-> "", status |-> 0,
            statusText |-> StatusText(0), rawHeaders |-> <<>>, responseText |-> <<>>,
            response |-> Str(<<>>), readable |-> TRUE, live |-> FALSE, sent |-> FALSE,
            owed |-> None]
  /\ call = [phase |-> "new", responseType |-> "json", onChunk |-> "none", lastIndex |-> 0,
             threwAt |-> None, re |-> None]
  /\ tok = [state |-> None, value |-> NoValue]
  /\ hist = [attempts |-> 0, uncaught |-> 0, chunks |-> <<>>, loads |-> 0, arrived |-> <<>>,
             done |-> [seen |-> FALSE, pendingBefore |-> FALSE, status |-> 0,
                       text |-> <<>>, rawHeaders |-> <<>>],
             failure |-> [kind |-> None, pendingBefore |-> FALSE, order |-> None],
             abort |-> [when |-> None, tokBefore |-> [state |-> None, value |-> NoValue]]]

Commit2(r) ==
  /\ xhr' = r.xhr
  /\ call' = r.call
  /\ tok' = r.tok
  /\ hist' = r.hist
  /\ UNCHANGED <<poolVars, timeVars, fnVars>>

\* An executor whose catch block drops the exception.
ExecutorSwallows(r, rt, onChunk, throwAt, readable, starts, re) ==
  [r EXCEPT
     !.call = [phase |-> "called", responseType |-> rt, onChunk |-> onChunk,
               lastIndex |-> 0, threwAt |-> throwAt, re |-> re],
     !.tok = PendingToken,
     !.xhr.readyState = IF throwAt # "open" THEN 1 ELSE 0,
     !.xhr.responseType = IF throwAt \notin {"open", "config"} /\ rt # "json" THEN rt ELSE "",
     !.xhr.readable = readable,
     !.xhr.sent = (throwAt = None),
     !.xhr.live = (throwAt = None \/ (throwAt = "send" /\ starts))]

\* The promise executor of xhrRequest up to the statement throwAt, which throws
\* (None: nothing throws and the request is sent).  starts: a send that throws
\* has nevertheless started the transport.  re: how the build in which the
\* request runs reads the expression of lines 11-12.
Executor(r, rt, onChunk, throwAt, readable, starts, re) ==
  LET opened == throwAt # "open"
      configured == throwAt \notin {"open", "config"}
      r1 == [r EXCEPT
               !.call = [phase |-> "called", responseType |-> rt, onChunk |-> onChunk,
                         lastIndex |-> 0, threwAt |-> throwAt, re |-> re],
               !.tok = PendingToken,
               !.xhr.readyState = IF opened THEN 1 ELSE 0,
               !.xhr.responseType = IF configured /\ rt # "json" THEN rt ELSE "",
               !.xhr.readable = readable,
               !.xhr.sent = (throwAt = None),
               !.xhr.live = (throwAt = None \/ (throwAt = "send" /\ starts))]
  IN  IF throwAt = None THEN r1 ELSE Reject(r1, SetupError(throwAt))

\* xhrRequest(opts)
XhrRequest(rt, onChunk, throwAt, readable, starts, re) ==
  /\ call.phase = "new"
  /\ (rt \in {"json", "text"} \/ throwAt \in {"open", "config"}) => readable
  /\ throwAt # "send" => ~starts
  /\ Commit2(Executor(Req, rt, onChunk, throwAt, readable, starts, re))

\* The transport received the status line and the headers (readyState 2).
HeadersReceived(status, block) ==
  /\ xhr.live /\ xhr.readyState = 1
  /\ Commit2(onreadystatechange(
       [Req EXCEPT !.xhr.readyState = 2, !.xhr.status = status,
                   !.xhr.statusText = StatusText(status), !.xhr.rawHeaders = block]))

\* A partial-data notification (readyState 3) after inc arrived.
Loading(inc) ==
  /\ xhr.live /\ xhr.readyState \in {2, 3}
  /\ hist.loads < MaxLoads
  /\ Len(xhr.responseText) + Len(inc) <= MaxText
  /\ Commit2(onreadystatechange(
       [Req EXCEPT !.xhr.readyState = 3, !.xhr.responseText = @ \o inc,
                   !.hist.loads = @ + 1, !.hist.arrived = Append(@, inc)]))

\* The transport finished (readyState 4); extra arrived since the last
\* partial-data notification; decoded: a non-text response type gave a value.
Done(extra, decoded) ==
  /\ xhr.live /\ xhr.readyState \in {2, 3}
  /\ Len(xhr.responseText) + Len(extra) <= MaxText
  /\ xhr.responseType \in {"", "text"} => decoded
  /\ LET text == xhr.responseText \o extra
     IN  Commit2(onreadystatechange(
           [Req EXCEPT !.xhr.readyState = 4, !.xhr.responseText = text,
                       !.xhr.response = IF xhr.responseType \in {"", "text"} THEN Str(text)
                                        ELSE IF decoded THEN Native(xhr.responseType, text)
                                        ELSE Null,
                       !.xhr.live = FALSE,
                       !.hist.done = [seen |-> TRUE, pendingBefore |-> tok.state = "pending",
                                      status |-> xhr.status, text |-> text,
                                      rawHeaders |-> xhr.rawHeaders]]))

\* The request error steps of the transport: the response becomes a network
\* error (status 0, no text, no headers).
NetworkError(r, kind, order) ==
  [r EXCEPT !.xhr.readyState = 4, !.xhr.status = 0,
            !.xhr.statusText = StatusText(0), !.xhr.rawHeaders = <<>>,
            !.xhr.responseText = <<>>,
            !.xhr.response = IF r.xhr.responseType \in {"", "text"} THEN Str(<<>>) ELSE Null,
            !.xhr.live = FALSE,
            !.hist.failure = [kind |-> kind, pendingBefore |-> r.tok.state = "pending",
                              order |-> order]]

\* The readystatechange notification of a failed request reaches the handler.
DoneOfFailure(r) ==
  onreadystatechange(
    IF r.xhr.readyState = 4
    THEN [r EXCEPT !.hist.done = [seen |-> TRUE, pendingBefore |-> r.tok.state = "pending",
                                  status |-> 0, text |-> <<>>, rawHeaders |-> <<>>]]
    ELSE r)

\* abort() on a request in flight: the error steps, then the done notification
\* and the abort event, both delivered inside the call of abort(); a browser
\* delivers the done notification first.
ErrorSteps(r, kind, order) ==
  IF order = "done-first"
  THEN OnEvent(kind, DoneOfFailure(NetworkError(r, kind, order)))
  ELSE DoneOfFailure(OnEvent(kind, NetworkError(r, kind, order)))

Orders == {"done-first", "event-first"}

\* A network failure or the expiry of xhr.timeout: the error steps, and the
\* first of the two notifications reaches its handler.  The transport owes the
\* other one: the handler returns to the transport, and the reactions of the
\* promise (microtasks) run before the second handler is called.
Fail(kind, order) ==
  /\ xhr.live /\ xhr.readyState \in {1, 2, 3}
  /\ LET r1 == NetworkError(Req, kind, order)
     IN  IF order = "done-first"
         THEN Commit2([DoneOfFailure(r1) EXCEPT !.xhr.owed = kind])
         ELSE Commit2([OnEvent(kind, r1) EXCEPT !.xhr.owed = "done"])

\* The notification the transport owes after a failure reaches its handler.
FailNext ==
  /\ xhr.owed # None
  /\ LET r1 == [Req EXCEPT !.xhr.owed = None]
     IN  IF xhr.owed = "done"
         THEN Commit2(DoneOfFailure(r1))
         ELSE Commit2(OnEvent(xhr.owed, r1))

\* The caller calls abort() on the transport handle xhrRequest returned.
Abort(order) ==
  /\ call.phase = "called"
  /\ hist.abort.when = None
  /\ IF xhr.live /\ xhr.readyState \in {1, 2, 3}
     THEN Commit2(ErrorSteps([Req EXCEPT !.hist.abort = [when |-> "inflight", tokBefore |-> tok]],
                             "abort", order))
     ELSE /\ order = "done-first"
          /\ Commit2([Req EXCEPT !.hist.abort = [when |-> "late", tokBefore |-> tok],
                                 !.xhr.readyState = IF @ = 4 THEN 0 ELSE @])

Increments == {<<>>} \cup {<<c>> : c \in TextChars}


\* --------------------------------------------------------------- the pool

\* What a task factory does when invoked: it may call pool.enqueue for further
\* factories (kids, each returning a task or throwing exc), then it returns
\* {promise, xhr} (exc = None) or throws exc.
KidBehaviours == {None} \cup Exceptions

SeqsUpTo(S, n) == UNION {[1..k -> S] : k \in 0..n}

Behaviours == [kids : SeqsUpTo(KidBehaviours, MaxNest), exc : {None} \cup Exceptions]

\* The transport handle the factory of job j returns beside its promise.
Handle(j) == <<"xhr", j>>

NoTask == [state |-> None, value |-> None]

\* The pool object and its history as one record, for the re-entrant calls.
Cur == [active |-> active, queue |-> queue, nextId |-> nextId, promise |-> promise,
        running |-> running, token |-> token, started |-> started, cause |-> cause,
        enqActive |-> enqActive, enqHead |-> enqHead, preActive |-> preActive,
        postActive |-> postActive,
        thrown |-> thrown, parent |-> parent, headAtThrow |-> headAtThrow]

Commit(p) ==
  /\ active' = p.active
  /\ queue' = p.queue
  /\ nextId' = p.nextId
  /\ promise' = p.promise
  /\ running' = p.running
  /\ token' = p.token
  /\ started' = p.started
  /\ cause' = p.cause
  /\ enqActive' = p.enqActive
  /\ enqHead' = p.enqHead
  /\ preActive' = p.preActive
  /\ postActive' = p.postActive
  /\ thrown' = p.thrown
  /\ parent' = p.parent
  /\ headAtThrow' = p.headAtThrow
  /\ UNCHANGED concurrency

\* The call that invoked a factory: enqueue of job `of` ("enq"), the then/catch
\* continuation of job `of` ("fin"), or the catch block after job `of` threw ("throw").
By(kind, j) == [by |-> kind, of |-> j]

HeadId(q) == IF q = <<>> THEN 0 ELSE Head(q).id

RECURSIVE _next(_, _), enqueue(_, _, _), createTaskFn(_, _, _)

\* A call f(x) is written CHOOSE r \in {f(q) : q \in {x}} : TRUE, which is f(x)
\* with the argument evaluated once, before the body of f runs, as JavaScript
\* evaluates it.

\* _next with the guard dropped.
nextUnguarded(p, c) ==
  IF p.queue = <<>> THEN p
  ELSE LET job == Head(p.queue)
           p1 == [p EXCEPT !.queue = Tail(@), !.active = @ + 1,
                           !.started = Append(@, job.id),
                           !.cause[job.id] = c,
                           !.preActive[job.id] = p.active]
       IN  createTaskFn(p1, job, 1)

\* _next taking the newest job instead of the oldest.
nextLifo(p, c) ==
  IF p.active >= concurrency THEN p
  ELSE IF p.queue = <<>> THEN p
  ELSE LET job == p.queue[Len(p.queue)]
           p1 == [p EXCEPT !.queue = SubSeq(@, 1, Len(@) - 1), !.active = @ + 1,
                           !.started = Append(@, job.id),
                           !.cause[job.id] = c,
                           !.preActive[job.id] = p.active]
       IN  createTaskFn(p1, job, 1)

\* XHRPool._next, up to the registration of then/catch.  c names the caller.
_next(p, c) ==
  IF p.active >= concurrency THEN p
  ELSE IF p.queue = <<>> THEN p
  ELSE LET job == Head(p.queue)
           p1 == [p EXCEPT !.queue = Tail(@), !.active = @ + 1,
                           !.started = Append(@, job.id),
                           !.cause[job.id] = c,
                           !.preActive[job.id] = p.active]
       IN  CHOOSE r \in {createTaskFn(q, job, 1) : q \in {p1}} : TRUE

\* The catch block forgetting to give the slot back.
createTaskFnKeepsSlot(p, job, i) ==
  IF i <= Len(job.kids)
  THEN createTaskFn(enqueue(p, [kids |-> <<>>, exc |-> job.kids[i]], job.id), job, i + 1)
  ELSE IF job.exc = None
  THEN [p EXCEPT !.promise[job.id] = Pending, !.running = @ \cup {job.id}]
  ELSE _next([p EXCEPT !.thrown[job.id] = job.exc,
                       !.postActive[job.id] = p.active,
                       !.headAtThrow[job.id] = HeadId(p.queue),
                       !.token[job.id] = reject(@, job.exc)],
             By("throw", job.id))

\* The try block of _next from the i-th statement of job's factory on: the
\* factory's own enqueue calls, then its return (then/catch registered) or its
\* throw (the catch block: active--, reject(err), this._next()).
createTaskFn(p, job, i) ==
  IF i <= Len(job.kids)
  THEN CHOOSE r \in {createTaskFn(q, job, i + 1) : q \in {
            enqueue(p, [kids |-> <<>>, exc |-> job.kids[i]], job.id)}} : TRUE
  ELSE IF job.exc = None
  THEN [p EXCEPT !.promise[job.id] = Pending, !.running = @ \cup {job.id}]
  ELSE CHOOSE r \in {_next(q, By("throw", job.id)) : q \in {
            [p EXCEPT !.active = @ - 1,
                      !.thrown[job.id] = job.exc,
                      !.postActive[job.id] = p.active - 1,
                      !.headAtThrow[job.id] = HeadId(p.queue),
                      !.token[job.id] = reject(@, job.exc)]}} : TRUE

\* enqueue forgetting to attempt a dispatch.
enqueueNoDispatch(p, beh, caller) ==
  LET id == p.nextId
  IN  [p EXCEPT !.queue = Append(@, [id |-> id, kids |-> beh.kids, exc |-> beh.exc]),
                !.nextId = @ + 1,
                !.token[id] = Pending,
                !.enqActive[id] = p.active,
                !.enqHead[id] = HeadId(p.queue),
                !.parent[id] = caller]

\* XHRPool.enqueue
enqueue(p, beh, caller) ==
  LET id == p.nextId
  IN  CHOOSE r \in {_next(q, By("enq", id)) : q \in {
           [p EXCEPT !.queue = Append(@, [id |-> id, kids |-> beh.kids, exc |-> beh.exc]),
                     !.nextId = @ + 1,
                     !.token[id] = Pending,
                     !.enqActive[id] = p.active,
                     !.enqHead[id] = HeadId(p.queue),
                     !.parent[id] = caller]}} : TRUE

\* The then continuation whose slot is given back a second time, as if the
\* catch continuation chained after it ran as well.
thenDecrementsTwice(p, j) ==
  CHOOSE r \in {_next(q, By("fin", j)) : q \in {
       [p EXCEPT !.active = @ - 2,
                 !.running = @ \ {j},
                 !.token[j] = resolve(@, [result |-> p.promise[j].value, xhr |-> Handle(j)])]}} : TRUE

\* The then continuation without the trailing this._next().
thenNoNext(p, j) ==
  [p EXCEPT !.active = @ - 1,
            !.running = @ \ {j},
            !.token[j] = resolve(@, [result |-> p.promise[j].value, xhr |-> Handle(j)])]

\* .then(result => { this.active--; resolve({result, xhr}); this._next(); })
thenHandler(p, j) ==
  CHOOSE r \in {_next(q, By("fin", j)) : q \in {
       [p EXCEPT !.active = @ - 1,
                 !.running = @ \ {j},
                 !.token[j] = resolve(@, [result |-> p.promise[j].value, xhr |-> Handle(j)])]}} : TRUE

\* The catch continuation failing the whole pool: every queued job is rejected too.
catchFailFast(p, j) ==
  [p EXCEPT !.active = @ - 1,
            !.running = @ \ {j},
            !.queue = <<>>,
            !.token = [k \in Jobs |->
                         IF k = j \/ \E n \in 1..Len(p.queue) : p.queue[n].id = k
                         THEN reject(p.token[k], p.promise[j].value)
                         ELSE p.token[k]]]

\* The catch continuation without the trailing this._next().
catchNoNext(p, j) ==
  [p EXCEPT !.active = @ - 1,
            !.running = @ \ {j},
            !.token[j] = reject(@, p.promise[j].value)]

\* .catch(err => { this.active--; reject(err); this._next(); })
catchHandler(p, j) ==
  CHOOSE r \in {_next(q, By("fin", j)) : q \in {
       [p EXCEPT !.active = @ - 1,
                 !.running = @ \ {j},
                 !.token[j] = reject(@, p.promise[j].value)]}} : TRUE

InitPool ==
  /\ concurrency \in 1..MaxLimit
  /\ active = 0
  /\ queue = <<>>
  /\ nextId = 1
  /\ promise = [j \in Jobs |-> NoTask]
  /\ running = {}
  /\ token = [j \in Jobs |-> NoTask]
  /\ started = <<>>
  /\ cause = [j \in Jobs |-> By(None, 0)]
  /\ enqActive = [j \in Jobs |-> -1]
  /\ enqHead = [j \in Jobs |-> 0]
  /\ preActive = [j \in Jobs |-> -1]
  /\ postActive = [j \in Jobs |-> -1]
  /\ thrown = [j \in Jobs |-> None]
  /\ parent = [j \in Jobs |-> 0]
  /\ headAtThrow = [j \in Jobs |-> 0]

InitTime ==
  /\ now = 0
  /\ dur = [j \in Jobs |-> 0]
  /\ enqT = [j \in Jobs |-> -1]
  /\ startT = [j \in Jobs |-> -1]
  /\ endT = [j \in Jobs |-> -1]

\* The enqueue calls the factories still in the queue will make once invoked.
RECURSIVE QueuedKids(_)
QueuedKids(q) == IF q = <<>> THEN 0 ELSE Len(Head(q).kids) + QueuedKids(Tail(q))

\* At most MaxJobs submissions in all, counting those of queued factories.
Room(beh) == nextId + Len(beh.kids) + QueuedKids(queue) <= MaxJobs

\* pool.enqueue(factory), called by the application outside any pool callback.
EnqueueStep(beh) ==
  /\ Room(beh)
  /\ \E p \in {enqueue(Cur, beh, 0)} : Commit(p)

\* The task of a running job settles (the external signal).
TaskResolveStep(j, v) ==
  /\ j \in running
  /\ promise[j].state = "pending"
  /\ promise' = [promise EXCEPT ![j] = resolve(@, v)]
  /\ UNCHANGED <<concurrency, active, queue, nextId, running, token, started, cause,
                 enqActive, enqHead, preActive, postActive, thrown, parent, headAtThrow>>

TaskRejectStep(j, e) ==
  /\ j \in running
  /\ promise[j].state = "pending"
  /\ promise' = [promise EXCEPT ![j] = reject(@, e)]
  /\ UNCHANGED <<concurrency, active, queue, nextId, running, token, started, cause,
                 enqActive, enqHead, preActive, postActive, thrown, parent, headAtThrow>>

\* The continuation registered by _next runs for a settled task.
ThenStep(j) ==
  /\ j \in running
  /\ promise[j].state = "resolved"
  /\ \E p \in {thenHandler(Cur, j)} : Commit(p)

CatchStep(j) ==
  /\ j \in running
  /\ promise[j].state = "rejected"
  /\ \E p \in {catchHandler(Cur, j)} : Commit(p)

Enqueue(beh) == EnqueueStep(beh) /\ UNCHANGED <<timeVars, reqVars, fnVars>>
TaskResolve(j, v) == TaskResolveStep(j, v) /\ UNCHANGED <<timeVars, reqVars, fnVars>>
TaskReject(j, e) == TaskRejectStep(j, e) /\ UNCHANGED <<timeVars, reqVars, fnVars>>
Then(j) == ThenStep(j) /\ UNCHANGED <<timeVars, reqVars, fnVars>>
Catch(j) == CatchStep(j) /\ UNCHANGED <<timeVars, reqVars, fnVars>>

\* No function is under study on its own.
InitFn ==
  /\ input = [of |-> None]
  /\ output = [applied |-> FALSE, threw |-> FALSE]

Init == InitPool /\ InitTime /\ InitRequest /\ InitFn

Next ==
  \/ \E beh \in Behaviours : Enqueue(beh)
  \/ \E j \in Jobs : \E v \in Results(j) : TaskResolve(j, v)
  \/ \E j \in Jobs : \E e \in Reasons(j) : TaskReject(j, e)
  \/ \E j \in Jobs : Then(j)
  \/ \E j \in Jobs : Catch(j)

vars == <<poolVars, timeVars, reqVars, fnVars>>

Spec == Init /\ [][Next]_vars

\* ------------------------------------------------ the pool, tasks that settle
\* The application submits for as long as it likes, for ever if it likes.  The
\* pool keeps nothing of a job once the job's token is settled (it is in
\* neither this.queue nor this.active), so the model forgets such jobs and gives
\* their ids to later submissions: at most MaxLiveJobs jobs are known at a
\* time, and any number are submitted in all.
MaxLiveJobs == 3
LiveJobs == 1..MaxLiveJobs

\* The id j names a job: enqueue was called for it and it is not forgotten.
Enqueued(j) == token[j].state # None

\* The pool record p with the jobs whose tokens are settled forgotten, and
\* every mention of them.
Forget(p) ==
  LET done == {k \in LiveJobs : p.token[k].state \in {"resolved", "rejected"}}
      Ref(m) == IF m \in done THEN 0 ELSE m
  IN  [p EXCEPT
         !.token = [k \in Jobs |-> IF k \in done THEN NoTask ELSE @[k]],
         !.promise = [k \in Jobs |-> IF k \in done THEN NoTask ELSE @[k]],
         !.started = SelectSeq(@, LAMBDA k : k \notin done),
         !.cause = [k \in Jobs |-> IF k \in done THEN By(None, 0)
                                   ELSE By(@[k].by, Ref(@[k].of))],
         !.enqActive = [k \in Jobs |-> IF k \in done THEN -1 ELSE @[k]],
         !.enqHead = [k \in Jobs |-> IF k \in done THEN 0 ELSE Ref(@[k])],
         !.preActive = [k \in Jobs |-> IF k \in done THEN -1 ELSE @[k]],
         !.postActive = [k \in Jobs |-> IF k \in done THEN -1 ELSE @[k]],
         !.thrown = [k \in Jobs |-> IF k \in done THEN None ELSE @[k]],
         !.parent = [k \in Jobs |-> IF k \in done THEN 0 ELSE Ref(@[k])],
         !.headAtThrow = [k \in Jobs |-> IF k \in done THEN 0 ELSE Ref(@[k])]]

\* The numbers of the set S in ascending order.
RECURSIVE Ascending(_)
Ascending(S) ==
  IF S = {} THEN <<>>
  ELSE LET m == CHOOSE i \in S : \A k \in S : i <= k
       IN  <<m>> \o Ascending(S \ {m})

\* The pool record p with the histories that only the safety properties read
\* put back to their initial values; what is kept is the pool itself, the
\* promises, the set of the jobs already admitted and, for each job, the head
\* of the queue at its push.
Live(p) ==
  [p EXCEPT
     !.started = Ascending({@[n] : n \in 1..Len(@)}),
     !.cause = [k \in Jobs |-> By(None, 0)],
     !.enqActive = [k \in Jobs |-> -1],
     !.preActive = [k \in Jobs |-> -1],
     !.postActive = [k \in Jobs |-> -1],
     !.thrown = [k \in Jobs |-> None],
     !.parent = [k \in Jobs |-> 0],
     !.headAtThrow = [k \in Jobs |-> 0]]

\* The ids i such that i and the n - 1 ids after it name no job of p.
FreeIds(p, n) ==
  {i \in LiveJobs : \A k \in i..(i + n - 1) : k \in LiveJobs /\ p.token[k].state = None}

\* pool.enqueue(factory), called by the application outside any pool callback:
\* the finished jobs are forgotten and the job takes the least id that is free
\* together with the ids after it that the enqueue calls of its factory and of
\* the factories in the queue will take.
EnqueueLive(beh) ==
  LET p0 == Forget(Cur)
      ids == FreeIds(p0, 1 + Len(beh.kids) + QueuedKids(queue))
  IN  /\ ids # {}
      /\ \E p \in {Live(enqueue([p0 EXCEPT !.nextId = CHOOSE i \in ids : \A k \in ids : i <= k],
                                 beh, 0))} : Commit(p)
      /\ UNCHANGED <<timeVars, reqVars, fnVars>>

\* The continuation registered by _next runs for a settled task.
ThenLive(j) ==
  /\ j \in running
  /\ promise[j].state = "resolved"
  /\ \E p \in {Live(thenHandler(Forget(Cur), j))} : Commit(p)
  /\ UNCHANGED <<timeVars, reqVars, fnVars>>

CatchLive(j) ==
  /\ j \in running
  /\ promise[j].state = "rejected"
  /\ \E p \in {Live(catchHandler(Forget(Cur), j))} : Commit(p)
  /\ UNCHANGED <<timeVars, reqVars, fnVars>>

NextLive ==
  \/ \E beh \in Behaviours : EnqueueLive(beh)
  \/ \E j \in Jobs : \E v \in Results(j) : TaskResolve(j, v)
  \/ \E j \in Jobs : \E e \in Reasons(j) : TaskReject(j, e)
  \/ \E j \in Jobs : ThenLive(j)
  \/ \E j \in Jobs : CatchLive(j)

\* Every task a factory returned settles at some time (the premise of the
\* liveness of the pool): the task of each admitted job, whatever the other
\* tasks do.
TaskSettles(j) ==
  \/ \E v \in Results(j) : TaskResolve(j, v)
  \/ \E e \in Reasons(j) : TaskReject(j, e)

\* A continuation of a settled promise is a microtask, which the event loop
\* runs: the microtask queue is served in order, so each of them is run.
Continuation(j) == ThenLive(j) \/ CatchLive(j)

\* For one job the two are never enabled together and each stays enabled until
\* it is taken, so weak fairness of their disjunction is weak fairness of each.
\* Nothing obliges the application to enqueue.
Fairness == \A j \in LiveJobs : WF_vars(TaskSettles(j) \/ Continuation(j))

SpecLive == Init /\ [][NextLive]_vars /\ Fairness

\* ------------------------------------------------- the pool with timer tasks
\* Every task is a timer: the task of job j settles dur[j] = j time units after
\* its factory was invoked ("job i lasts i time units").  Continuations are
\* microtasks: they run before time moves.
InitTimed ==
  /\ InitPool
  /\ now = 0
  /\ dur = [j \in Jobs |-> j]
  /\ enqT = [j \in Jobs |-> -1]
  /\ startT = [j \in Jobs |-> -1]
  /\ endT = [j \in Jobs |-> -1]
  /\ InitRequest
  /\ InitFn

\* Time stamps of what the pool step of this action did.
Stamp ==
  /\ UNCHANGED <<now, dur, reqVars, fnVars>>
  /\ enqT' = [j \in Jobs |-> IF enqT[j] = -1 /\ j < nextId' THEN now ELSE enqT[j]]
  /\ startT' = [j \in Jobs |->
                  IF startT[j] = -1 /\ (\E n \in 1..Len(started') : started'[n] = j)
                  THEN now ELSE startT[j]]
  /\ endT' = [j \in Jobs |->
                IF endT[j] = -1 /\ token'[j].state \in {"resolved", "rejected"}
                THEN now ELSE endT[j]]

Due(j) == startT[j] + dur[j]

EnqueueT(beh) == EnqueueStep(beh) /\ Stamp
TaskResolveT(j, v) == Due(j) = now /\ TaskResolveStep(j, v) /\ Stamp
TaskRejectT(j, e) == Due(j) = now /\ TaskRejectStep(j, e) /\ Stamp
ThenT(j) == ThenStep(j) /\ Stamp
CatchT(j) == CatchStep(j) /\ Stamp

\* Time passes while some timer runs and none is due (with no timer running
\* nothing observes the clock).
Tick ==
  /\ now < MaxTime
  /\ running # {}
  /\ \A j \in running : promise[j].state = "pending" /\ Due(j) > now
  /\ now' = now + 1
  /\ UNCHANGED <<poolVars, dur, enqT, startT, endT, reqVars, fnVars>>

NextTimed ==
  \/ \E beh \in Behaviours : EnqueueT(beh)
  \/ \E j \in Jobs : \E v \in Results(j) : TaskResolveT(j, v)
  \/ \E j \in Jobs : \E e \in Reasons(j) : TaskRejectT(j, e)
  \/ \E j \in Jobs : ThenT(j)
  \/ \E j \in Jobs : CatchT(j)
  \/ Tick

SpecTimed == InitTimed /\ [][NextTimed]_vars

\* -------------------------------------------------- one request on its own
InitReq == InitPool /\ concurrency = 1 /\ InitTime /\ InitRequest /\ InitFn

NextReq ==
  \/ \E rt \in ResponseTypes, oc \in ChunkCallbacks,
        at \in {None} \cup {SetupSteps[i] : i \in 1..Len(SetupSteps)},
        readable \in BOOLEAN, starts \in BOOLEAN, re \in Readings :
       XhrRequest(rt, oc, at, readable, starts, re)
  \/ \E status \in Statuses, block \in HeaderBlocks : HeadersReceived(status, block)
  \/ \E inc \in Increments : Loading(inc)
  \/ \E extra \in Increments, decoded \in BOOLEAN : Done(extra, decoded)
  \/ \E kind \in {"error", "timeout"}, order \in Orders : Fail(kind, order)
  \/ FailNext
  \/ \E order \in Orders : Abort(order)

SpecReq == InitReq /\ [][NextReq]_vars

\* ------------------------------------------------- parseHeaders on its own
\* parseHeaders in every build of the file.
\* The header blocks given to parseHeaders: up to MaxLines lines "name: value",
\* each ended by CR LF, as getAllResponseHeaders() writes them, or by LF alone;
\* a value may be empty, may hold an upper-case letter and may hold ": ".
\* trailing = FALSE: a transport that leaves out the last line terminator.
MaxLines == 2
HeaderNames == {<<"A">>, <<"a">>, <<"b">>}
HeaderValues == {<<"1">>, <<"A">>, <<"1", ":", " ", "1">>, <<>>}
HeaderLine == [name : HeaderNames, value : HeaderValues]

Terminators == {<<"CR", "LF">>, <<"LF">>}

RECURSIVE Block(_, _)
Block(lines, eol) ==
  IF lines = <<>> THEN <<>>
  ELSE Head(lines).name \o <<":", " ">> \o Head(lines).value \o eol
       \o Block(Tail(lines), eol)

RawBlock(lines, eol, trailing) ==
  IF trailing \/ lines = <<>> THEN Block(lines, eol)
  ELSE SubSeq(Block(lines, eol), 1, Len(Block(lines, eol)) - Len(eol))

InitHeaders ==
  /\ InitPool /\ concurrency = 1 /\ InitTime /\ InitRequest
  /\ \E lines \in SeqsUpTo(HeaderLine, MaxLines), eol \in Terminators, trailing \in BOOLEAN,
        re \in Builds :
       /\ lines = <<>> => (trailing /\ eol = <<"LF">>)
       /\ input = [of |-> "parseHeaders", lines |-> lines, eol |-> eol,
                   headerStr |-> RawBlock(lines, eol, trailing), re |-> re]
  /\ output = [applied |-> FALSE, threw |-> FALSE]

\* parseHeaders(headerStr) is called: a build that rejected the file has no
\* function to give a result, the others return the mapping of their reading.
ParseHeaders ==
  /\ input.of = "parseHeaders" /\ ~output.applied /\ ~output.threw
  /\ output' = IF input.re = "SyntaxError"
               THEN [applied |-> FALSE, threw |-> TRUE]
               ELSE [applied |-> TRUE, threw |-> FALSE,
                     value |-> parseHeaders(input.headerStr, input.re)]
  /\ UNCHANGED <<poolVars, timeVars, reqVars, input>>

NextHeaders == ParseHeaders

SpecHeaders == InitHeaders /\ [][NextHeaders]_vars

\* ---------------------------------------- the payload of xhrRequest on its own
\* 'application/json'
AppJson == <<"a", "p", "p", "l", "i", "c", "a", "t", "i", "o", "n", "/", "j", "s", "o", "n">>

\* The headers option: at most MaxHeaders keys, each with the value
\* 'application/json', 'Application/json', 'application/json; x', 'text' or ''.
MaxHeaders == 2
HeaderKeys == {"Content-Type", "content-type", "CONTENT-TYPE", "Content-type", "Accept"}
ContentTypes == {AppJson, <<"A">> \o Tail(AppJson), AppJson \o <<";", " ", "x">>,
                 <<"t", "e", "x", "t">>, <<>>}
HeaderMaps ==
  UNION {[keys -> ContentTypes] : keys \in {K \in SUBSET HeaderKeys : Cardinality(K) <= MaxHeaders}}

\* The body option: null, a string, a number, the arrays [], [1] and [[]].
Number(n) == [type |-> "number", n |-> n]
Array(items) == [type |-> "array", items |-> items]
Bodies == {Null, Str(<<"1">>), Number(1), Array(<<>>), Array(<<Number(1)>>),
           Array(<<Array(<<>>)>>)}

\* headers[key]: undefined, as the empty string, is falsy.
Get(headers, key) == IF key \in DOMAIN headers THEN headers[key] ELSE <<>>

\* String.prototype.includes
includes(str, sub) ==
  \E i \in 0..(Len(str) - Len(sub)) : SubSeq(str, i + 1, i + Len(sub)) = sub

\* typeof body === 'object' (null apart)
IsObject(body) == body.type = "array"

\* JSON.stringify on the numbers written with the digit 1 and on arrays
RECURSIVE JSONstringify(_)
JSONstringify(v) ==
  IF v.type = "number"
  THEN IF v.n < 10 THEN <<"1">> ELSE JSONstringify(Number(v.n \div 10)) \o <<"1">>
  ELSE <<"[">> \o (IF v.items = <<>> THEN <<>> ELSE JSONstringify(v.items[1])) \o <<"]">>

\* The payload given to xhr.send(payload)
Payload(headers, body) ==
  LET first == Get(headers, "Content-Type")
      ct == toLowerCase(IF first # <<>> THEN first ELSE Get(headers, "content-type"))
  IN  IF body # Null /\ IsObject(body) /\ includes(ct, AppJson)
      THEN Str(JSONstringify(body))
      ELSE body

InitPayload ==
  /\ InitPool /\ concurrency = 1 /\ InitTime /\ InitRequest
  /\ \E headers \in HeaderMaps, body \in Bodies :
       input = [of |-> "payload", headers |-> headers, body |-> body]
  /\ output = [applied |-> FALSE, threw |-> FALSE]

\* The executor computes the payload and sends it.
Send ==
  /\ input.of = "payload" /\ ~output.applied
  /\ output' = [applied |-> TRUE, threw |-> FALSE,
                value |-> Payload(input.headers, input.body)]
  /\ UNCHANGED <<poolVars, timeVars, reqVars, input>>

NextPayload == Send

SpecPayload == InitPayload /\ [][NextPayload]_vars

TypeOK ==
  /\ active \in Int
  /\ nextId \in 1..(MaxJobs + 1)
  /\ running \subseteq Jobs
  /\ \A n \in 1..Len(queue) : queue[n].id \in Jobs

\* ------------------------------------------------------------ vocabulary
Submitted == 1..(nextId - 1)
Started == {started[n] : n \in 1..Len(started)}
Queued == {queue[n].id : n \in 1..Len(queue)}
Settled(t) == t.state \in {"resolved", "rejected"}
Threw(j) == thrown[j] # None

\* ------------------------------------------------------------------- C1
\* C1: with a positive limit, 0 <= active <= concurrency in every state the
\* pool passes through (at rest, right after each increment and right after
\* each decrement of a catch block), and every job was shifted off the queue by
\* a dispatch attempt that observed active < concurrency.
C1_ActiveWithinLimit ==
  /\ 0 <= active /\ active <= concurrency
  /\ \A j \in Started : 0 <= preActive[j] /\ preActive[j] < concurrency
  /\ \A j \in Jobs : Threw(j) => 0 <= postActive[j] /\ postActive[j] < concurrency

\* A full pool with a job waiting, after a task settled, a factory threw and a
\* factory made a re-entrant enqueue call.
C1_Witness ==
  /\ active = concurrency /\ queue # <<>>
  /\ \E j \in Jobs : Settled(token[j]) /\ ~Threw(j)
  /\ \E j \in Jobs : Threw(j)
  /\ \E j \in Submitted : parent[j] # 0

\* ------------------------------------------------------------------- C2
\* C2: between callbacks active = min(concurrency, queue length + active): a job
\* waits in the queue only while every slot is taken.
C2_WorkConserving ==
  /\ active = Min(concurrency, Len(queue) + active)
  /\ queue # <<>> => active = concurrency

\* A job that waited was admitted by a completion while another still waits.
C2_Witness ==
  /\ queue # <<>>
  /\ \E j \in Started : cause[j].by = "fin"

\* ------------------------------------------------------------------- C3
\* C3: factories are invoked in submission order, whatever the order in which
\* running jobs complete or fail.
C3_FifoAdmission ==
  \A m, n \in 1..Len(started) : m < n => started[m] < started[n]

\* Three jobs admitted, one of which had to wait, and a later submission
\* finished while an earlier one is still running.
C3_Witness ==
  /\ Len(started) >= 3
  /\ \E j \in Started : enqActive[j] = concurrency
  /\ \E j, k \in Started : j < k /\ j \in running /\ Settled(token[k])

\* ------------------------------------------------------------------- C4
\* pool(2), four jobs submitted at time 0, job i lasting i time units.
ScenarioStart == <<0, 0, 1, 2>>
ScenarioEnd == <<1, 2, 4, 6>>
ScenarioJobs == 1..4

\* C4: on an initially idle pool the first `concurrency` submissions have their
\* factories invoked inside their own enqueue call, as has every submission
\* that finds a free slot; a submission that finds every slot taken is invoked
\* only by the completion (continuation or catch block) of an earlier job, at
\* the time of that completion; a task settles its token at admission time plus
\* its duration.  For pool(2) and jobs 1..4 submitted at time 0 with job i lasting
\* i: jobs start at 0, 0, 1, 2 and finish at 1, 2, 4, 6.
C4_AdmissionTiming ==
  /\ \A j \in Submitted :
       /\ j <= concurrency => j \in Started /\ cause[j] = By("enq", j)
       /\ enqActive[j] < concurrency =>
            j \in Started /\ cause[j] = By("enq", j) /\ startT[j] = enqT[j]
       /\ enqActive[j] = concurrency => j \in Queued \/ j \in Started
  /\ \A j \in Started :
       /\ enqActive[j] = concurrency =>
            /\ cause[j].by \in {"fin", "throw"}
            /\ cause[j].of # j /\ cause[j].of \in Started
            /\ endT[cause[j].of] = startT[j]
       /\ (endT[j] # -1 /\ ~Threw(j)) => endT[j] = startT[j] + dur[j]
  /\ (concurrency = 2 /\ \A k \in ScenarioJobs : ~Threw(k)) =>
       \A j \in ScenarioJobs \cap Submitted :
         enqT[j] = 0 =>
           /\ startT[j] \in {-1, ScenarioStart[j]}
           /\ endT[j] \in {-1, ScenarioEnd[j]}
           /\ now > ScenarioStart[j] => startT[j] = ScenarioStart[j]
           /\ now > ScenarioEnd[j] => endT[j] = ScenarioEnd[j]

\* The scenario ran to its end: pool(2), four jobs submitted at time 0, started
\* at 0, 0, 1, 2 and finished at 1, 2, 4, 6.
C4_Witness ==
  /\ concurrency = 2
  /\ \A j \in ScenarioJobs :
       /\ j \in Submitted /\ enqT[j] = 0 /\ ~Threw(j)
       /\ startT[j] = ScenarioStart[j]
       /\ endT[j] = ScenarioEnd[j]
  /\ cause[3] = By("fin", 1) /\ cause[4] = By("fin", 2)

\* ------------------------------------------------------------------- C5
\* C5: a submission's token resolves exactly with {result, xhr} of its own task
\* and rejects exactly with its own task's reason or its own factory's
\* exception; every submission is in the queue, running or settled, so no job is
\* rejected, cancelled, reordered or removed by another job's failure.
C5_OwnOutcomeOnly ==
  /\ \A j \in Jobs :
       /\ token[j].state = "resolved" =>
            /\ promise[j].state = "resolved"
            /\ token[j].value = [result |-> promise[j].value, xhr |-> Handle(j)]
       /\ token[j].state = "rejected" =>
            \/ promise[j].state = "rejected" /\ ~Threw(j) /\ token[j].value = promise[j].value
            \/ promise[j].state = None /\ Threw(j) /\ token[j].value = thrown[j]
       /\ (promise[j].state = "resolved" /\ j \notin running) => token[j].state = "resolved"
       /\ (promise[j].state = "rejected" /\ j \notin running) => token[j].state = "rejected"
       /\ Threw(j) => token[j].state = "rejected"
  /\ \A j \in Submitted :
       /\ (j \in Queued \/ j \in running) <=> token[j].state = "pending"
       /\ ~(j \in Queued /\ j \in running)
  /\ \A m, n \in 1..Len(queue) : m < n => queue[m].id < queue[n].id

\* The task of one job rejected and its token with it, and beside it a sibling
\* resolved, another still runs and another still waits.
C5_Witness ==
  /\ \E j \in Jobs : token[j].state = "rejected" /\ promise[j].state = "rejected"
  /\ \E j \in Jobs : token[j].state = "resolved"
  /\ running # {}
  /\ queue # <<>>

\* ------------------------------------------------------------------- C6
\* The jobs that j's factory admitted itself, by a re-entrant enqueue, and that
\* are running when j's factory throws.
AdmittedBy(j) ==
  {k \in Started : parent[k] = j /\ cause[k] = By("enq", k) /\ ~Threw(k)}

\* C6 as stated: after a factory throws, active is back at its value before
\* the admission.
C6_Original ==
  \A j \in Jobs : Threw(j) => postActive[j] = preActive[j]

\* C6 (amended): when a factory throws, that submission's token is rejected with
\* the exception and no other token changes, the catch block's decrement leaves
\* active at its value before the admission plus the jobs the factory itself
\* admitted by re-entrant enqueue, and the head of the queue, if any, is admitted
\* by that same catch block; no job waits while a slot is free.
C6_ThrowReleasesSlot ==
  /\ \A j \in Jobs : Threw(j) =>
       /\ token[j] = [state |-> "rejected", value |-> thrown[j]]
       /\ postActive[j] = preActive[j] + Cardinality(AdmittedBy(j))
       /\ headAtThrow[j] # 0 => cause[headAtThrow[j]] = By("throw", j)
  /\ \A j \in Jobs : (token[j].state = "rejected" /\ ~Threw(j)) => promise[j].state = "rejected"
  /\ \A j \in Started : cause[j].by = "throw" => Threw(cause[j].of) /\ headAtThrow[cause[j].of] = j
  /\ (\E j \in Jobs : Threw(j)) => (queue # <<>> => active = concurrency)

\* A factory threw while a job waited behind it, and that job was admitted.
C6_Witness ==
  \E j \in Jobs : Threw(j) /\ headAtThrow[j] # 0 /\ headAtThrow[j] \in running

\* ------------------------------------------------------------------- C7
Is2xx(status) == status >= 200 /\ status < 300

\* C7: when the done notification is delivered with status s to a request whose
\* token is pending, the token resolves with a ResponseEnvelope carrying s if
\* 200 <= s < 300 and otherwise rejects with the FailureEnvelope of s, the
\* status text, the raw body and the parsed headers; no ResponseEnvelope carries
\* a status outside [200, 300).
C7_StatusDecidesOutcome ==
  /\ (hist.done.seen /\ hist.done.pendingBefore) =>
       IF Is2xx(hist.done.status)
       THEN /\ tok.state = "resolved"
            /\ tok.value.kind = "ResponseEnvelope"
            /\ tok.value.status = hist.done.status
       ELSE tok = [state |-> "rejected",
                   value |-> [kind |-> "FailureEnvelope", status |-> hist.done.status,
                              statusText |-> StatusText(hist.done.status),
                              body |-> Str(hist.done.text),
                              headers |-> parseHeaders(hist.done.rawHeaders, call.re)]]
  /\ tok.value.kind = "ResponseEnvelope" => Is2xx(tok.value.status)

\* ------------------------------------------------------------------- C8
FailureMessage(kind) ==
  IF kind = "error" THEN "Network error"
  ELSE IF kind = "timeout" THEN "Timeout"
  ELSE "Aborted"

\* C8: a request that ends by network failure, timeout or abort while its token
\* is pending rejects with the plain error naming which of the three occurred,
\* not with a FailureEnvelope, in either order of the done notification and the
\* error/timeout/abort notification.
C8_TransportFailureIsPlainError ==
  (hist.failure.kind # None /\ hist.failure.pendingBefore) =>
    tok = [state |-> "rejected", value |-> ErrorOf(FailureMessage(hist.failure.kind))]

\* ------------------------------------------------------------------- C9
\* C9: once the token of a request is resolved or rejected, no notification,
\* abort or setup exception changes its state or the value it carries.
C9_SettlesAtMostOnce ==
  [][tok.state \in {"resolved", "rejected"} => tok' = tok]_vars

\* resolve/reject was called again on a settled token: the done notification
\* and a failure notification both reached a request that was sent.
C9_Witness ==
  /\ hist.attempts >= 2
  /\ hist.done.seen /\ hist.failure.kind # None
  /\ tok.state = "rejected"

\* ------------------------------------------------------------------ C10
\* C10: after abort() on the handle of a request in flight the token is rejected
\* (the notifications are delivered inside abort(), so it is rejected at once and
\* stays so); after abort() on a request whose token had settled, the token is
\* what it was.
C10_AbortRejects ==
  /\ hist.abort.when = "inflight" => tok.state = "rejected"
  /\ (hist.abort.when = "late" /\ hist.abort.tokBefore.state \in {"resolved", "rejected"}) =>
       tok = hist.abort.tokBefore

\* abort() reached a sent request whose token was pending, after headers and
\* data had arrived.
C10_Witness ==
  /\ hist.abort.when = "inflight"
  /\ hist.abort.tokBefore.state = "pending"
  /\ xhr.sent /\ hist.loads > 0
  /\ tok.state = "rejected"

\* ------------------------------------------------------------------ C11
\* The increments onChunk was given, joined in call order.
RECURSIVE Delivered(_)
Delivered(calls) ==
  IF calls = <<>> THEN <<>> ELSE Head(calls).text \o Delivered(Tail(calls))

\* The transport finished a request that had onChunk registered, by the done
\* notification of a completed response (not by the error steps).
StreamFinished ==
  /\ call.onChunk # "none"
  /\ hist.done.seen /\ hist.failure.kind = None /\ hist.abort.when # "inflight"

\* C11: when a request with onChunk registered has been finished by the done
\* notification, the increments onChunk was given do not overlap (each starts
\* where the one before ended) and joined in call order they are the complete
\* final raw body, also when text arrived after the last partial-data
\* notification.
C11_ChunksCoverBody ==
  StreamFinished =>
    /\ \A i \in 1..Len(hist.chunks) :
         hist.chunks[i].from = Len(Delivered(SubSeq(hist.chunks, 1, i - 1)))
    /\ Delivered(hist.chunks) = hist.done.text

\* ------------------------------------------------------------------ C12
\* C12: with onChunk registered, the n-th partial-data notification makes the
\* n-th call of onChunk and no other does (one call per notification, none on
\* headers or done), the calls come at non-decreasing offsets, each is given
\* exactly the text that arrived since the notification before it (not the
\* text so far), and each is made while the transport is receiving and the
\* token is pending.
C12_OnePerNotification ==
  /\ call.onChunk = "none" => hist.chunks = <<>>
  /\ call.onChunk # "none" =>
       /\ Len(hist.chunks) = hist.loads
       /\ \A i \in 1..Len(hist.chunks) :
            /\ hist.chunks[i].load = i
            /\ hist.chunks[i].readyState = 3
            /\ hist.chunks[i].tokState = "pending"
            /\ hist.chunks[i].text = hist.arrived[i]
            /\ i > 1 => hist.chunks[i].from >= hist.chunks[i - 1].from

\* ------------------------------------------------------------------ C13
\* The calls of onChunk that threw.
ThrewAt == {i \in 1..Len(hist.chunks) : hist.chunks[i].threw}

\* This step called onChunk and the call threw.
ChunkThrewNow ==
  /\ Len(hist'.chunks) = Len(hist.chunks) + 1
  /\ hist'.chunks[Len(hist'.chunks)].threw

C13_State ==
  /\ \A i \in ThrewAt :
       /\ IF i < Len(hist.chunks)
          THEN /\ hist.chunks[i + 1].from = hist.chunks[i].from + Len(hist.chunks[i].text)
               /\ hist.chunks[i + 1].text = hist.arrived[i + 1]
          ELSE call.lastIndex = hist.chunks[i].from + Len(hist.chunks[i].text)
  /\ ThrewAt # {} =>
       /\ hist.uncaught = 0
       /\ (call.threwAt = None /\ ~hist.done.seen /\ hist.failure.kind = None) =>
            tok = PendingToken
       /\ (hist.done.seen /\ hist.done.pendingBefore) =>
            IF Is2xx(hist.done.status)
            THEN tok.state = "resolved" /\ tok.value.status = hist.done.status
            ELSE /\ tok.state = "rejected"
                 /\ tok.value.kind = "FailureEnvelope"
                 /\ tok.value.status = hist.done.status

\* C13: a call of onChunk that throws leaves the token as it was and raises
\* nothing out of the handler; lastIndex has advanced past the increment of
\* that call, so the next call is given exactly the text that arrived after it
\* (nothing again, nothing skipped); and the done notification still resolves
\* the token on a 2xx status and rejects it with the FailureEnvelope otherwise.
C13_ChunkThrowContained ==
  /\ []C13_State
  /\ [][ChunkThrewNow => (tok' = tok /\ hist'.uncaught = hist.uncaught
                                    /\ hist'.attempts = hist.attempts)]_vars

\* onChunk threw on an increment that was not empty, was called again with
\* text that arrived later, and the request then resolved.
C13_Witness ==
  /\ 1 \in ThrewAt /\ hist.chunks[1].text # <<>>
  /\ Len(hist.chunks) = 2 /\ hist.chunks[2].text # <<>>
  /\ hist.done.seen /\ tok.state = "resolved"

\* ------------------------------------------------------------------ C14
\* C14: when a statement of the setup (open, the settings, setRequestHeader,
\* JSON.stringify, send) throws, xhrRequest has returned {promise, xhr} and the
\* token is rejected with exactly that exception, in every later state: no
\* notification of the transport and no abort() changes it.
C14_SetupThrowRejects ==
  call.threwAt # None =>
    /\ call.phase = "called"
    /\ tok = [state |-> "rejected", value |-> SetupError(call.threwAt)]

\* send threw, the transport went on all the same and delivered its done
\* notification, whose resolve/reject came after the rejection.
C14_Witness ==
  /\ call.threwAt = "send"
  /\ hist.done.seen /\ hist.attempts >= 2
  /\ tok.state = "rejected"

\* ------------------------------------------------------------------ C15
\* The done notification with a 2xx status reached a pending request whose
\* responseType was left at the default 'json'.
JsonDone ==
  /\ call.responseType = "json"
  /\ hist.done.seen /\ hist.done.pendingBefore
  /\ Is2xx(hist.done.status)

\* C15: such a request resolves, and the body of its envelope is the value
\* JSON.parse gives for the raw text when the text is JSON (the number 1 for
\* "1", the empty array for "[]"), null when the raw text is empty, and the
\* raw text itself when it is not JSON (as for "[" or "]1").
C15_JsonBody ==
  JsonDone =>
    LET text == hist.done.text
        parsed == JSONparse(text)
    IN  /\ tok.state = "resolved"
        /\ tok.value.kind = "ResponseEnvelope"
        /\ tok.value.body = IF text = <<>> THEN Null
                            ELSE IF parsed.ok THEN parsed.value
                            ELSE Str(text)
        /\ text = <<"1">> => tok.value.body = [type |-> "number", n |-> 1]
        /\ text = <<"[", "]">> => tok.value.body = [type |-> "array", items |-> <<>>]
        /\ text = <<"[">> => tok.value.body = Str(<<"[">>)
        /\ text = <<"]", "1">> => tok.value.body = Str(<<"]", "1">>)

\* A 2xx response whose text is not JSON resolved with the text as its body.
C15_Witness ==
  /\ JsonDone /\ hist.done.text # <<>> /\ ~JSONparse(hist.done.text).ok
  /\ tok.state = "resolved" /\ tok.value.body = Str(hist.done.text)

\* ------------------------------------------------------------------ C16
\* The lines of the block whose name is k in some letter case.
LinesNamed(lines, k) == {i \in 1..Len(lines) : toLowerCase(lines[i].name) = k}

\* The largest element of a non-empty set of numbers.
Last(S) == CHOOSE i \in S : \A j \in S : j <= i

\* C16: parseHeaders gives the mapping whose keys are the lower-cased names of
\* the lines of the block and in which each key has the value of the last line
\* carrying that name in any letter case, the value being everything after the
\* first ": " of the line (a ": " inside the value stays); the empty block
\* gives the empty mapping.
C16_ParseHeaders ==
  (input.of = "parseHeaders" /\ output.applied) =>
    LET lines == input.lines
        names == {toLowerCase(lines[i].name) : i \in 1..Len(lines)}
    IN  /\ DOMAIN output.value = names
        /\ \A k \in names : output.value[k] = lines[Last(LinesNamed(lines, k))].value
        /\ input.headerStr = <<>> => output.value = <<>>
        /\ input.headerStr = <<"A", ":", " ", "A", "CR", "LF",
                               "b", ":", " ", "1", ":", " ", "1", "CR", "LF">> =>
             output.value = (<<"a">> :> <<"A">>) @@ (<<"b">> :> <<"1", ":", " ", "1">>)

\* ------------------------------------------------------------------ C17
\* The header keys that are "content-type" when letter case is ignored.
IsContentTypeKey(k) == k \in {"Content-Type", "content-type", "CONTENT-TYPE", "Content-type"}

\* The headers declare a JSON media type under some such key.
DeclaresJson(headers) ==
  \E k \in DOMAIN headers : IsContentTypeKey(k) /\ includes(toLowerCase(headers[k]), AppJson)

\* C17: the payload given to send is the JSON text of the body (the text that
\* JSON.parse turns back into the body) exactly when the body is an object and
\* some header key equal to "content-type" in any letter case has a value
\* naming application/json; otherwise it is the body as given, null for a null
\* body.
C17_JsonPayload ==
  (input.of = "payload" /\ output.applied) =>
    IF IsObject(input.body) /\ DeclaresJson(input.headers)
    THEN /\ output.value.type = "string"
         /\ JSONparse(output.value.of) = [ok |-> TRUE, value |-> input.body]
    ELSE output.value = input.body

\* ------------------------------------------------------------------ C18
\* The factory of job j was invoked and the token enqueue returned for j is
\* settled.
Served(j) == j \in Started /\ Settled(token[j])

\* Job j was enqueued and is not served.
Unserved(j) == Enqueued(j) /\ ~Served(j)

\* C18: in a pool with limit N >= 1 whose tasks all settle, every job that was
\* enqueued has its factory invoked at some time and its token settled at some
\* time, whether the submissions stop or go on for ever: no job is starved by
\* what is enqueued after it.  In two parts: no job stays unserved for ever,
\* and a job stops being unserved in no other way than by being served (it is
\* not dropped); together they give Enqueued(j) ~> Served(j) for every job.
C18_EveryJobServed ==
  /\ \A j \in LiveJobs : []<>~Unserved(j)
  /\ [][\A j \in LiveJobs : Unserved(j) => Unserved(j)' \/ Served(j)']_vars

\* A job j stood at the head of the queue when a later job k was pushed behind
\* it, k under an id below j's that an earlier, finished job had given back (the
\* submissions went on past the ids); j was admitted and its token settled.
C18_Witness ==
  \E j, k \in LiveJobs :
    /\ enqHead[k] = j /\ k < j
    /\ Served(j) /\ token[j].state = "resolved"

\* ------------------------------------------------------------------ C19
\* The jobs whose factory has been invoked and whose outcome has not been
\* forwarded to the token enqueue returned.
InFlight == {j \in Started : token[j].state = "pending"}

\* C19: active is the number of jobs whose factory has been invoked and whose
\* outcome is not yet forwarded, and these are the running jobs; the
\* admissions so far less the outcomes forwarded so far is active (one
\* increment per admission, one decrement per outcome, whether success,
\* rejection or throw); no factory is invoked twice; a job in the queue has
\* not been admitted, so none is queued and running at once.
C19_SlotAccounting ==
  /\ active = Cardinality(InFlight)
  /\ running = InFlight
  /\ active = Len(started) - Cardinality({j \in Started : Settled(token[j])})
  /\ \A m, n \in 1..Len(started) : m # n => started[m] # started[n]
  /\ Queued \cap Started = {}
  /\ Queued \cap running = {}

\* A job resolved, another rejected, the factory of a third threw, and a job
\* is still running.
C19_Witness ==
  /\ \E j \in Jobs : token[j].state = "resolved"
  /\ \E j \in Jobs : token[j].state = "rejected" /\ ~Threw(j)
  /\ \E j \in Jobs : Threw(j)
  /\ active >= 1

\* ------------------------------------------------------------------ C20
\* C20: once the done notification has been delivered to a request, its token
\* is settled (the handler of that notification resolved or rejected it unless
\* it was settled before), for every responseType, every status and every
\* decoded value, empty or not.
C20_DoneSettles ==
  hist.done.seen => tok.state \in {"resolved", "rejected"}
====
